---- MODULE Spec2Model ----
(***************************************************************************)
(* Model of um_loss.cpp: c_um_loss_gradient (pair counting over a union-   *)
(* find replay of the MST, then the two sliding-window sweeps that give    *)
(* the loss and its gradient) and c_prune_mst.                             *)
(*                                                                         *)
(* Numbers.  The code computes in double.  The model computes in exact     *)
(* integers: distances and alpha are integers (one unit stands for any     *)
(* fixed step, e.g. 0.5), and every value derived from ratioPos / ratioNeg *)
(* is kept as a numerator over a common denominator: ratioPos[i] stands    *)
(* for ratioPos[i] / ratioPosDen, scoresA..C for x / ratioNegDen,          *)
(* scoresD..E for x / ratioPosDen, loss and gradients for                  *)
(* x / (ratioPosDen * ratioNegDen).  Rounding is not modelled.             *)
(*                                                                         *)
(* size_t.  Index arithmetic is taken modulo SizeMod = 2^SizeBits.         *)
(***************************************************************************)
EXTENDS Integers, Sequences, FiniteSets, TLC

\* ------------------------------------------------------------------ bounds
MaxNodes == 3
MaxLabel == 2
MaxDist == 2
MaxAlpha == 2
MaxComponents == 3
SizeBits == 4

SizeMod == 2 ^ SizeBits

Labels == (-1) .. MaxLabel
Dists == 0 .. MaxDist
Alphas == 0 .. MaxAlpha

\* ----------------------------------------------------------------- helpers
RECURSIVE SumOn(_, _)
SumOn(f, S) ==
    IF S = {} THEN 0
    ELSE LET x == CHOOSE y \in S : TRUE IN f[x] + SumOn(f, S \ {x})

\* size_t subtraction: (a - b) modulo 2^w
SizeSub(a, b) == (a + SizeMod - b) % SizeMod

\* a[k] := v on an array whose written entries are DOMAIN a
Store(a, k, v) == [x \in (DOMAIN a) \cup {k} |-> IF x = k THEN v ELSE a[x]]

Empty == [x \in {} |-> 0]

VARIABLES
    pc,                 \* position in the running function
    numNodes, mst, gtSeg, alpha,          \* inputs of c_um_loss_gradient
    overlaps, rank, parent,               \* lines 18-23
    i, j,                                 \* loop indices (size_t)
    ratioPos, ratioNeg,                   \* output arrays (numerators)
    ratioPosDen, ratioNegDen,             \* their common denominators
    totalNumPairsPos, totalNumPairsNeg,
    scoreA, scoreB, scoreC, scoresA, scoresB, scoresC,
    scoreD, scoreE, scoresD, scoresE,
    loss, gradients,
    oob,                \* an index outside its array has been used
    writesFwd, writesBwd,  \* how often scoresA..C[k] / scoresD..E[k] were assigned
    numComponents, labels, components,    \* inputs of c_prune_mst
    componentIndices, filtered_mst,
    accepted            \* the input edge each output triple was copied from

umVars == <<overlaps, rank, parent, i, j, ratioPos, ratioNeg, ratioPosDen,
            ratioNegDen, totalNumPairsPos, totalNumPairsNeg, scoreA, scoreB,
            scoreC, scoresA, scoresB, scoresC, scoreD, scoreE, scoresD,
            scoresE, loss, gradients, oob, writesFwd, writesBwd>>
umInputs == <<numNodes, mst, gtSeg, alpha>>
pruneInputs == <<numComponents, labels, components>>
pruneVars == <<componentIndices, filtered_mst, accepted>>
vars == <<pc, umInputs, umVars, pruneInputs, pruneVars>>

\* the mst buffer holds numNodes - 1 triples (none for numNodes = 0)
NumEdges == IF numNodes = 0 THEN 0 ELSE numNodes - 1
Edges == 0 .. (NumEdges - 1)
Nodes == 0 .. (numNodes - 1)
\* the loop bound "numNodes - 1" as the code computes it
EdgeBound == SizeSub(numNodes, 1)

\* ------------------------------------------------- boost::disjoint_sets
RECURSIVE FindRoot(_, _)
FindRoot(p, x) == IF p[x] = x THEN x ELSE FindRoot(p, p[x])

RECURSIVE PathTo(_, _)
PathTo(p, x) == IF p[x] = x THEN {} ELSE {x} \cup PathTo(p, p[x])

\* find_set: find_with_full_path_compression
Compress(p, x) ==
    LET r == FindRoot(p, x)
        path == PathTo(p, x)
    IN  [y \in DOMAIN p |-> IF y \in path THEN r ELSE p[y]]

\* a link that leaves the two sets apart
LinkForgets(p, r, x, y) == [parent |-> p, rank |-> r]

\* link: detail::link_sets (union by rank)
Link(p, r, x, y) ==
    LET p1 == Compress(p, x)
        a == FindRoot(p, x)
        p2 == Compress(p1, y)
        b == FindRoot(p1, y)
    IN  IF a = b THEN [parent |-> p2, rank |-> r]
        ELSE IF r[a] > r[b] THEN [parent |-> [p2 EXCEPT ![b] = a], rank |-> r]
        ELSE [parent |-> [p2 EXCEPT ![a] = b],
              rank |-> IF r[a] = r[b] THEN [r EXCEPT ![b] = r[b] + 1] ELSE r]

\* ---------------------------------------------------- c_um_loss_gradient
\* any two foreground labels taken as a positive pair
PosPairsAnyForeground(labelU, labelV, countU, countV) ==
    IF labelU >= 1 /\ labelV >= 1 THEN countU * countV ELSE 0

\* lines 84-88: (n, n) -> positive
PosPairs(labelU, labelV, countU, countV) ==
    IF labelU >= 1 /\ labelU = labelV THEN countU * countV ELSE 0

\* the background test of line 95 left out
NegPairsNoBackground(labelU, labelV, countU, countV) ==
    IF labelU >= 1 /\ labelU # labelV /\ labelV >= 1 THEN countU * countV ELSE 0

\* lines 84-96: (n, m), (n, 0), (0, -1) -> negative
NegPairs(labelU, labelV, countU, countV) ==
    (IF labelU >= 1 /\ labelU # labelV /\ labelV >= 1 THEN countU * countV ELSE 0)
    + (IF (labelU = 0) # (labelV = 0) THEN countU * countV ELSE 0)

\* the entries of a std::map histogram: the labels with a count
Keys(h) == {l \in DOMAIN h : h[l] > 0}

\* lines 54-100: the double loop over the two histograms
EdgePos(hU, hV) ==
    LET P == Keys(hU) \X Keys(hV)
    IN  SumOn([q \in P |-> PosPairs(q[1], q[2], hU[q[1]], hV[q[2]])], P)

EdgeNeg(hU, hV) ==
    LET P == Keys(hU) \X Keys(hV)
    IN  SumOn([q \in P |-> NegPairs(q[1], q[2], hU[q[1]], hV[q[2]])], P)

\* the histogram of v added to u but not cleared
MoveOverlapsKeepsV(ov, clusterU, clusterV) ==
    [ov EXCEPT ![clusterU] = [l \in Labels |-> ov[clusterU][l] + ov[clusterV][l]]]

\* lines 102-110: move all overlaps from v to u
MoveOverlaps(ov, clusterU, clusterV) ==
    [ov EXCEPT ![clusterU] = [l \in Labels |-> ov[clusterU][l] + ov[clusterV][l]],
               ![clusterV] = [l \in Labels |-> 0]]

\* the forward test with <= : an edge at exactly d_i - alpha trails too
FwdTrailsAtMargin(dj, di, a) == dj <= di - a

\* the forward test without the margin
FwdTrailsNoMargin(dj, di, a) == dj < di

\* line 143: the forward trailing edge j is behind the window of edge i
FwdTrails(dj, di, a) == dj < di - a

\* the backward test without the margin
BwdTrailsNoMargin(dj, di, a) == dj > di

\* line 193: the backward trailing edge j is behind the window of edge i
BwdTrails(dj, di, a) == dj > di + a

\* the loss term without the 2 * alpha * distance part of (d + alpha)^2
LossTermNoCross(rp, d, a, sA, sB, sC) ==
    rp * ((d * d + a * a) * sA + (-2 * d - 2 * a) * sB + sC)

\* lines 171-176: the term of edge k in the loss
LossTerm(rp, d, a, sA, sB, sC) ==
    rp * ((d * d + 2 * a * d + a * a) * sA + (-2 * d - 2 * a) * sB + sC)

\* lines 223-231: the gradient of edge k
GradientTerm(rp, rn, d, a, sA, sB, sD, sE) ==
    2 * rp * ((a + d) * (sA - rn) - (sB - d * rn))
    - 2 * rn * ((a - d) * (sD - rp) + (sE - d * rp))

\* the next access of the running loop uses an index outside its array
OutOfBounds ==
    CASE pc = "count" -> i < EdgeBound /\ i \notin Edges
      [] pc = "fwd" -> i < EdgeBound /\ (i \notin Edges \/ j \notin Edges)
      [] pc = "bwd" -> i \notin Edges \/ j \notin Edges
      [] pc = "bwdfin" -> j \notin Edges
      [] OTHER -> FALSE

\* lines 18-37: the vectors, make_set, the singleton histograms, the totals
UmEnter ==
    /\ pc = "um_entry"
    /\ overlaps' = [n \in Nodes |-> [l \in Labels |-> IF l = gtSeg[n] THEN 1 ELSE 0]]
    /\ parent' = [n \in Nodes |-> n]
    /\ rank' = [n \in Nodes |-> 0]
    /\ totalNumPairsPos' = 0
    /\ totalNumPairsNeg' = 0
    /\ i' = 0
    /\ pc' = "count"
    /\ UNCHANGED <<umInputs, pruneInputs, pruneVars, j, ratioPos, ratioNeg,
                   ratioPosDen, ratioNegDen, scoreA, scoreB, scoreC, scoresA,
                   scoresB, scoresC, scoreD, scoreE, scoresD, scoresE, loss,
                   gradients, oob, writesFwd, writesBwd>>

\* lines 39-115: one iteration of the pair-counting loop
UmCount ==
    /\ pc = "count"
    /\ i < EdgeBound
    /\ ~OutOfBounds
    /\ LET u == mst[i].u
           v == mst[i].v
           p1 == Compress(parent, u)
           cu == FindRoot(parent, u)
           p2 == Compress(p1, v)
           cv == FindRoot(p1, v)
           linked == Link(p2, rank, cu, cv)
           \* lines 50-51: find_set(clusterU) == clusterV swaps the two
           swap == FindRoot(linked.parent, cu) = cv
           p3 == Compress(linked.parent, cu)
           clusterU == IF swap THEN cv ELSE cu
           clusterV == IF swap THEN cu ELSE cv
           pos == EdgePos(overlaps[clusterU], overlaps[clusterV])
           neg == EdgeNeg(overlaps[clusterU], overlaps[clusterV])
       IN  /\ cu # cv                           \* line 46: assert
           /\ parent' = p3
           /\ rank' = linked.rank
           /\ ratioPos' = Store(ratioPos, i, pos)
           /\ ratioNeg' = Store(ratioNeg, i, neg)
           /\ overlaps' = MoveOverlaps(overlaps, clusterU, clusterV)
           /\ totalNumPairsPos' = totalNumPairsPos + pos
           /\ totalNumPairsNeg' = totalNumPairsNeg + neg
    /\ i' = i + 1
    /\ UNCHANGED <<pc, umInputs, pruneInputs, pruneVars, j, ratioPosDen,
                   ratioNegDen, scoreA, scoreB, scoreC, scoresA, scoresB,
                   scoresC, scoreD, scoreE, scoresD, scoresE, loss, gradients,
                   oob, writesFwd, writesBwd>>

\* lines 117-137: the normalisation loop, then the set-up of the forward sweep.
\* ratioPos[k] /= totalNumPairsPos keeps the numerator and sets the denominator.
UmNormalize ==
    /\ pc = "count"
    /\ ~(i < EdgeBound)
    /\ ratioPosDen' = IF totalNumPairsPos > 0 THEN totalNumPairsPos ELSE 1
    /\ ratioNegDen' = IF totalNumPairsNeg > 0 THEN totalNumPairsNeg ELSE 1
    /\ scoreA' = 0 /\ scoreB' = 0 /\ scoreC' = 0
    /\ scoresA' = [k \in Edges |-> 0]
    /\ scoresB' = [k \in Edges |-> 0]
    /\ scoresC' = [k \in Edges |-> 0]
    /\ writesFwd' = [k \in Edges |-> 0]
    /\ i' = 0 /\ j' = 0
    /\ pc' = "fwd"
    /\ UNCHANGED <<umInputs, pruneInputs, pruneVars, overlaps, rank, parent,
                   ratioPos, ratioNeg, totalNumPairsPos, totalNumPairsNeg,
                   scoreD, scoreE, scoresD, scoresE, loss, gradients, oob,
                   writesBwd>>

\* lines 143-149: one iteration of the while loop of the forward sweep
UmFwdTrail ==
    /\ pc = "fwd"
    /\ i < EdgeBound
    /\ ~OutOfBounds
    /\ FwdTrails(mst[j].d, mst[i].d, alpha)
    /\ scoresA' = [scoresA EXCEPT ![j] = scoreA]
    /\ scoresB' = [scoresB EXCEPT ![j] = scoreB]
    /\ scoresC' = [scoresC EXCEPT ![j] = scoreC]
    /\ writesFwd' = [writesFwd EXCEPT ![j] = @ + 1]
    /\ j' = (j + 1) % SizeMod
    /\ UNCHANGED <<pc, umInputs, pruneInputs, pruneVars, overlaps, rank, parent,
                   i, ratioPos, ratioNeg, ratioPosDen, ratioNegDen,
                   totalNumPairsPos, totalNumPairsNeg, scoreA, scoreB, scoreC,
                   scoreD, scoreE, scoresD, scoresE, loss, gradients, oob,
                   writesBwd>>

\* lines 151-154: the running scores take edge i, and the for loop advances
UmFwdAccum ==
    /\ pc = "fwd"
    /\ i < EdgeBound
    /\ ~OutOfBounds
    /\ ~FwdTrails(mst[j].d, mst[i].d, alpha)
    /\ scoreA' = scoreA + ratioNeg[i]
    /\ scoreB' = scoreB + mst[i].d * ratioNeg[i]
    /\ scoreC' = scoreC + mst[i].d * mst[i].d * ratioNeg[i]
    /\ i' = i + 1
    /\ UNCHANGED <<pc, umInputs, pruneInputs, pruneVars, overlaps, rank, parent,
                   j, ratioPos, ratioNeg, ratioPosDen, ratioNegDen,
                   totalNumPairsPos, totalNumPairsNeg, scoresA, scoresB,
                   scoresC, scoreD, scoreE, scoresD, scoresE, loss, gradients,
                   oob, writesFwd, writesBwd>>

\* lines 157-163: one iteration of "finish pending trailing edges"
UmFwdFinish ==
    /\ pc = "fwd"
    /\ ~(i < EdgeBound)
    /\ j < EdgeBound
    /\ scoresA' = [scoresA EXCEPT ![j] = scoreA]
    /\ scoresB' = [scoresB EXCEPT ![j] = scoreB]
    /\ scoresC' = [scoresC EXCEPT ![j] = scoreC]
    /\ writesFwd' = [writesFwd EXCEPT ![j] = @ + 1]
    /\ j' = (j + 1) % SizeMod
    /\ UNCHANGED <<pc, umInputs, pruneInputs, pruneVars, overlaps, rank, parent,
                   i, ratioPos, ratioNeg, ratioPosDen, ratioNegDen,
                   totalNumPairsPos, totalNumPairsNeg, scoreA, scoreB, scoreC,
                   scoreD, scoreE, scoresD, scoresE, loss, gradients, oob,
                   writesBwd>>

\* lines 165-187: the loss loop, then the set-up of the backward sweep
UmLoss ==
    /\ pc = "fwd"
    /\ ~(i < EdgeBound)
    /\ ~(j < EdgeBound)
    /\ loss' = SumOn([k \in Edges |-> LossTerm(ratioPos[k], mst[k].d, alpha,
                                               scoresA[k], scoresB[k], scoresC[k])],
                     Edges)
    /\ scoreD' = 0 /\ scoreE' = 0
    /\ scoresD' = [k \in Edges |-> 0]
    /\ scoresE' = [k \in Edges |-> 0]
    /\ writesBwd' = [k \in Edges |-> 0]
    /\ j' = SizeSub(numNodes, 2)
    /\ i' = SizeSub(numNodes, 2)
    /\ pc' = "bwd"
    /\ UNCHANGED <<umInputs, pruneInputs, pruneVars, overlaps, rank, parent,
                   ratioPos, ratioNeg, ratioPosDen, ratioNegDen,
                   totalNumPairsPos, totalNumPairsNeg, scoreA, scoreB, scoreC,
                   scoresA, scoresB, scoresC, gradients, oob, writesFwd>>

\* lines 193-198: one iteration of the while loop of the backward sweep
UmBwdTrail ==
    /\ pc = "bwd"
    /\ ~OutOfBounds
    /\ BwdTrails(mst[j].d, mst[i].d, alpha)
    /\ scoresD' = [scoresD EXCEPT ![j] = scoreD]
    /\ scoresE' = [scoresE EXCEPT ![j] = scoreE]
    /\ writesBwd' = [writesBwd EXCEPT ![j] = @ + 1]
    /\ j' = SizeSub(j, 1)
    /\ UNCHANGED <<pc, umInputs, pruneInputs, pruneVars, overlaps, rank, parent,
                   i, ratioPos, ratioNeg, ratioPosDen, ratioNegDen,
                   totalNumPairsPos, totalNumPairsNeg, scoreA, scoreB, scoreC,
                   scoresA, scoresB, scoresC, scoreD, scoreE, loss, gradients,
                   oob, writesFwd>>

\* lines 200-205: the running scores take edge i; the loop ends at i = 0
UmBwdAccum ==
    /\ pc = "bwd"
    /\ ~OutOfBounds
    /\ ~BwdTrails(mst[j].d, mst[i].d, alpha)
    /\ scoreD' = scoreD + ratioPos[i]
    /\ scoreE' = scoreE + mst[i].d * ratioPos[i]
    /\ IF i = 0 THEN pc' = "bwdfin" /\ i' = i
                ELSE pc' = pc /\ i' = SizeSub(i, 1)
    /\ UNCHANGED <<umInputs, pruneInputs, pruneVars, overlaps, rank, parent,
                   j, ratioPos, ratioNeg, ratioPosDen, ratioNegDen,
                   totalNumPairsPos, totalNumPairsNeg, scoreA, scoreB, scoreC,
                   scoresA, scoresB, scoresC, scoresD, scoresE, loss,
                   gradients, oob, writesFwd, writesBwd>>

\* lines 208-216: one iteration of "finish pending trailing edges", downwards
UmBwdFinish ==
    /\ pc = "bwdfin"
    /\ ~OutOfBounds
    /\ scoresD' = [scoresD EXCEPT ![j] = scoreD]
    /\ scoresE' = [scoresE EXCEPT ![j] = scoreE]
    /\ writesBwd' = [writesBwd EXCEPT ![j] = @ + 1]
    /\ IF j = 0 THEN pc' = "grad" /\ j' = j
                ELSE pc' = pc /\ j' = SizeSub(j, 1)
    /\ UNCHANGED <<umInputs, pruneInputs, pruneVars, overlaps, rank, parent,
                   i, ratioPos, ratioNeg, ratioPosDen, ratioNegDen,
                   totalNumPairsPos, totalNumPairsNeg, scoreA, scoreB, scoreC,
                   scoresA, scoresB, scoresC, scoreD, scoreE, loss, gradients,
                   oob, writesFwd>>

\* lines 218-234: the gradient loop and the return
UmGradients ==
    /\ pc = "grad"
    /\ gradients' = [k \in Edges |->
                        GradientTerm(ratioPos[k], ratioNeg[k], mst[k].d, alpha,
                                     scoresA[k], scoresB[k], scoresD[k],
                                     scoresE[k])]
    /\ pc' = "done"
    /\ UNCHANGED <<umInputs, pruneInputs, pruneVars, overlaps, rank, parent,
                   i, j, ratioPos, ratioNeg, ratioPosDen, ratioNegDen,
                   totalNumPairsPos, totalNumPairsNeg, scoreA, scoreB, scoreC,
                   scoresA, scoresB, scoresC, scoreD, scoreE, scoresD, scoresE,
                   loss, oob, writesFwd, writesBwd>>

\* lines 41, 140, 143, 190, 193, 211: an index outside the array is used
UmOutOfBounds ==
    /\ OutOfBounds
    /\ oob' = TRUE
    /\ pc' = "ub"
    /\ UNCHANGED <<umInputs, pruneInputs, pruneVars, overlaps, rank, parent,
                   i, j, ratioPos, ratioNeg, ratioPosDen, ratioNegDen,
                   totalNumPairsPos, totalNumPairsNeg, scoreA, scoreB, scoreC,
                   scoresA, scoresB, scoresC, scoreD, scoreE, scoresD, scoresE,
                   loss, gradients, writesFwd, writesBwd>>

\* what the build may do after the access: fault, or go on with whatever it
\* read and return some value
UmUndefined ==
    /\ pc = "ub"
    /\ \E outcome \in {"crashed", "done"}, g \in {0, 1} :
          /\ pc' = outcome
          /\ loss' = IF outcome = "done" THEN g ELSE loss
    /\ UNCHANGED <<umInputs, pruneInputs, pruneVars, overlaps, rank, parent,
                   i, j, ratioPos, ratioNeg, ratioPosDen, ratioNegDen,
                   totalNumPairsPos, totalNumPairsNeg, scoreA, scoreB, scoreC,
                   scoresA, scoresB, scoresC, scoreD, scoreE, scoresD, scoresE,
                   gradients, oob, writesFwd, writesBwd>>

NextUm ==
    \/ UmEnter
    \/ UmCount
    \/ UmNormalize
    \/ UmFwdTrail
    \/ UmFwdAccum
    \/ UmFwdFinish
    \/ UmLoss
    \/ UmBwdTrail
    \/ UmBwdAccum
    \/ UmBwdFinish
    \/ UmGradients
    \/ UmOutOfBounds
    \/ UmUndefined

\* ------------------------------------------------------------------ inputs
\* the nodes joined to a node of S by the edges es[k], k \in E
RECURSIVE Reach(_, _, _)
Reach(S, E, es) ==
    LET T == S \cup {es[k].v : k \in {e \in E : es[e].u \in S}}
               \cup {es[k].u : k \in {e \in E : es[e].v \in S}}
    IN  IF T = S THEN S ELSE Reach(T, E, es)

\* n - 1 edges that connect the n nodes
IsSpanningTree(n, es) ==
    n >= 1 /\ DOMAIN es = 0 .. (n - 2) /\ Reach({0}, DOMAIN es, es) = 0 .. (n - 1)

\* an edge between two of n nodes, written with u < v
EdgePairs(n) ==
    {e \in {[u |-> a, v |-> b, d |-> 0] : a, b \in 0 .. (n - 1)} : e.u < e.v}

\* the spanning trees over n nodes, in every processing order
TreeInputs(n) ==
    IF n = 0 THEN {Empty}
    ELSE {es \in [0 .. (n - 2) -> EdgePairs(n)] : IsSpanningTree(n, es)}

WithIndexDistances(es) == [k \in DOMAIN es |-> [es[k] EXCEPT !.d = k]]

\* the chain 0 - 1 - ... - (n-1) with the distances ds
Chain(n, ds) == [k \in DOMAIN ds |-> [u |-> k, v |-> k + 1, d |-> ds[k]]]

SortedDistances(n) ==
    IF n = 0 THEN {Empty}
    ELSE {ds \in [0 .. (n - 2) -> Dists] :
             \A k \in 0 .. (n - 3) : ds[k] <= ds[k + 1]}

\* the scenario of the documentation: 4 nodes, labels [1, 1, 2, 0], edges
\* (0,1,1.0), (2,3,2.0), (1,2,3.0), alpha = 0.5, in units of 0.5
ScenarioMst ==
    (0 :> [u |-> 0, v |-> 1, d |-> 2]) @@ (1 :> [u |-> 2, v |-> 3, d |-> 4])
    @@ (2 :> [u |-> 1, v |-> 2, d |-> 6])
ScenarioLabels == (0 :> 1) @@ (1 :> 1) @@ (2 :> 2) @@ (3 :> 0)
IsScenario ==
    numNodes = 4 /\ mst = ScenarioMst /\ gtSeg = ScenarioLabels

Scenario ==
    /\ numNodes = 4
    /\ mst = ScenarioMst
    /\ gtSeg = ScenarioLabels
    /\ alpha = 1

\* nothing of either function has run
Untouched ==
    /\ overlaps = Empty /\ rank = Empty /\ parent = Empty
    /\ i = 0 /\ j = 0
    /\ ratioPos = Empty /\ ratioNeg = Empty
    /\ ratioPosDen = 1 /\ ratioNegDen = 1
    /\ totalNumPairsPos = 0 /\ totalNumPairsNeg = 0
    /\ scoreA = 0 /\ scoreB = 0 /\ scoreC = 0
    /\ scoresA = Empty /\ scoresB = Empty /\ scoresC = Empty
    /\ scoreD = 0 /\ scoreE = 0
    /\ scoresD = Empty /\ scoresE = Empty
    /\ loss = 0 /\ gradients = Empty
    /\ oob = FALSE
    /\ writesFwd = Empty /\ writesBwd = Empty
    /\ componentIndices = Empty /\ filtered_mst = Empty /\ accepted = Empty

NoPruneInputs ==
    numComponents = 0 /\ labels = Empty /\ components = Empty

\* c_um_loss_gradient on every spanning tree in every order and every labelling
InitPairs ==
    /\ pc = "um_entry"
    /\ \/ /\ numNodes \in 0 .. MaxNodes
          /\ mst \in {WithIndexDistances(es) : es \in TreeInputs(numNodes)}
          /\ gtSeg \in [Nodes -> Labels]
          /\ alpha = 0
       \/ Scenario
    /\ NoPruneInputs
    /\ Untouched

\* c_um_loss_gradient on every labelling, sorted distances and margin
InitLoss ==
    /\ pc = "um_entry"
    /\ \/ /\ numNodes \in 0 .. MaxNodes
          /\ mst \in {Chain(numNodes, ds) : ds \in SortedDistances(numNodes)}
          /\ gtSeg \in [Nodes -> Labels]
          /\ alpha \in Alphas
       \/ Scenario
    /\ NoPruneInputs
    /\ Untouched

\* ------------------------------------------------------------ c_prune_mst
Slots == 0 .. (numComponents - 1)

\* lines 251-256: componentIndices[components[k]] = k, a later k over an earlier
IndexOf(comps, l) ==
    CHOOSE k \in DOMAIN comps :
        comps[k] = l /\ \A m \in DOMAIN comps : comps[m] = l => m <= k

ComponentIndices(comps) ==
    [l \in {comps[k] : k \in DOMAIN comps} |-> IndexOf(comps, l)]

\* no edge is ever dropped
NeverMerged(clusterU, clusterV) == FALSE

\* line 272: the edge is dropped when its two clusters are the same
AlreadyMerged(clusterU, clusterV) == clusterU = clusterV

\* lines 246-259
PruneEnter ==
    /\ pc = "prune_entry"
    /\ componentIndices' = ComponentIndices(components)
    /\ parent' = [k \in Slots |-> k]
    /\ rank' = [k \in Slots |-> 0]
    /\ i' = 0 /\ j' = 0
    /\ pc' = "prune"
    /\ UNCHANGED <<umInputs, pruneInputs, filtered_mst, accepted, overlaps,
                   ratioPos, ratioNeg, ratioPosDen, ratioNegDen,
                   totalNumPairsPos, totalNumPairsNeg, scoreA, scoreB, scoreC,
                   scoresA, scoresB, scoresC, scoreD, scoreE, scoresD, scoresE,
                   loss, gradients, oob, writesFwd, writesBwd>>

PruneUnchanged ==
    UNCHANGED <<umInputs, pruneInputs, componentIndices, overlaps,
                ratioPos, ratioNeg, ratioPosDen, ratioNegDen,
                totalNumPairsPos, totalNumPairsNeg, scoreA, scoreB, scoreC,
                scoresA, scoresB, scoresC, scoreD, scoreE, scoresD, scoresE,
                loss, gradients, writesFwd, writesBwd>>

InComponents(k) ==
    /\ labels[mst[k].u] \in DOMAIN componentIndices
    /\ labels[mst[k].v] \in DOMAIN componentIndices

\* lines 265-266: componentIndices.at() of a label that is no component throws
PruneThrow ==
    /\ pc = "prune"
    /\ i < EdgeBound
    /\ i \in Edges
    /\ ~InComponents(i)
    /\ pc' = "threw"
    /\ UNCHANGED <<i, j, parent, rank, filtered_mst, accepted, oob>>
    /\ PruneUnchanged

\* lines 262-273: an edge whose components already got merged
PruneDiscard ==
    /\ pc = "prune"
    /\ i < EdgeBound
    /\ i \in Edges
    /\ InComponents(i)
    /\ LET componentU == componentIndices[labels[mst[i].u]]
           componentV == componentIndices[labels[mst[i].v]]
           p1 == Compress(parent, componentU)
           clusterU == FindRoot(parent, componentU)
           p2 == Compress(p1, componentV)
           clusterV == FindRoot(p1, componentV)
       IN  /\ AlreadyMerged(clusterU, clusterV)
           /\ parent' = p2
    /\ i' = i + 1
    /\ UNCHANGED <<pc, j, rank, filtered_mst, accepted, oob>>
    /\ PruneUnchanged

\* lines 262-281: an edge that is copied to the output, and the link
PruneAccept ==
    /\ pc = "prune"
    /\ i < EdgeBound
    /\ i \in Edges
    /\ InComponents(i)
    /\ LET componentU == componentIndices[labels[mst[i].u]]
           componentV == componentIndices[labels[mst[i].v]]
           p1 == Compress(parent, componentU)
           clusterU == FindRoot(parent, componentU)
           p2 == Compress(p1, componentV)
           clusterV == FindRoot(p1, componentV)
           linked == Link(p2, rank, clusterU, clusterV)
       IN  /\ ~AlreadyMerged(clusterU, clusterV)
           /\ parent' = linked.parent
           /\ rank' = linked.rank
    /\ filtered_mst' = Store(filtered_mst, j, mst[i])
    /\ accepted' = Store(accepted, j, i)
    /\ j' = (j + 1) % SizeMod
    /\ i' = i + 1
    /\ UNCHANGED <<pc, oob>>
    /\ PruneUnchanged

\* the triple read past the end of mst and the label read with it
Garbage == [u |-> -1, v |-> -1, d |-> -1]

\* lines 262-266 with i past the end of mst (numNodes = 0, where numNodes - 1
\* wraps): the reads give whatever is there.  The build faults, or at() throws,
\* or the labels read are those of two components and the iteration goes on.
PruneOutOfBounds ==
    /\ pc = "prune"
    /\ i < EdgeBound
    /\ i \notin Edges
    /\ oob' = TRUE
    /\ \E outcome \in {"crashed", "threw", "prune"} :
       \E componentU, componentV \in (IF outcome = "prune" THEN Slots ELSE {0}) :
          /\ pc' = outcome
          /\ IF outcome # "prune"
             THEN UNCHANGED <<i, j, parent, rank, filtered_mst, accepted>>
             ELSE LET p1 == Compress(parent, componentU)
                      clusterU == FindRoot(parent, componentU)
                      p2 == Compress(p1, componentV)
                      clusterV == FindRoot(p1, componentV)
                      linked == Link(p2, rank, clusterU, clusterV)
                  IN  /\ i' = i + 1
                      /\ IF AlreadyMerged(clusterU, clusterV)
                         THEN /\ parent' = p2
                              /\ UNCHANGED <<j, rank, filtered_mst, accepted>>
                         ELSE /\ parent' = linked.parent
                              /\ rank' = linked.rank
                              /\ filtered_mst' = Store(filtered_mst, j, Garbage)
                              /\ accepted' = Store(accepted, j, -1)
                              /\ j' = (j + 1) % SizeMod
    /\ PruneUnchanged

\* line 284: the assertion holds and the function returns
PruneReturn ==
    /\ pc = "prune"
    /\ ~(i < EdgeBound)
    /\ j = SizeSub(numComponents, 1)
    /\ pc' = "done"
    /\ UNCHANGED <<i, j, parent, rank, filtered_mst, accepted, oob>>
    /\ PruneUnchanged

\* line 284: the assertion fails
PruneAssertFails ==
    /\ pc = "prune"
    /\ ~(i < EdgeBound)
    /\ j # SizeSub(numComponents, 1)
    /\ pc' = "assert_failed"
    /\ UNCHANGED <<i, j, parent, rank, filtered_mst, accepted, oob>>
    /\ PruneUnchanged

NextPrune ==
    \/ PruneEnter
    \/ PruneThrow
    \/ PruneDiscard
    \/ PruneAccept
    \/ PruneOutOfBounds
    \/ PruneReturn
    \/ PruneAssertFails

ComponentLabels == 1 .. MaxComponents

\* any numNodes - 1 edges between the nodes, edge k at distance k
EdgeInputs(n) ==
    IF n = 0 THEN {Empty} ELSE [0 .. (n - 2) -> EdgePairs(n)]

\* c_prune_mst on any edge list and labelling; the components are the labels
\* 1 .. numComponents, in this order
InitPrune ==
    /\ pc = "prune_entry"
    /\ numNodes \in 0 .. MaxNodes
    /\ mst \in {WithIndexDistances(es) : es \in EdgeInputs(numNodes)}
    /\ labels \in [Nodes -> ComponentLabels]
    /\ numComponents \in 0 .. MaxComponents
    /\ components = [k \in Slots |-> k + 1]
    /\ gtSeg = Empty /\ alpha = 0
    /\ Untouched

SpecPairs == InitPairs /\ [][NextUm]_vars

SpecLoss == InitLoss /\ [][NextUm]_vars

SpecPrune == InitPrune /\ [][NextPrune]_vars

Init == InitPairs \/ InitLoss \/ InitPrune

Next == NextUm \/ NextPrune

Spec == Init /\ [][Next]_vars

\* ================================================================= claims
\* the function has got past the pair-counting loop without a bad index
Counted == pc \in {"fwd", "bwd", "bwdfin", "grad", "done"} /\ ~oob

\* the nodes joined to x by the edges before edge k
ClusterBefore(k, x) == Reach({x}, 0 .. (k - 1), mst)

NodePairs == {p \in Nodes \X Nodes : p[1] < p[2]}

\* the node pairs that edge k brings together
MergedBy(k) ==
    {p \in NodePairs : /\ p[2] \notin ClusterBefore(k, p[1])
                       /\ p[2] \in ClusterBefore(k + 1, p[1])}

PositivePair(p) ==
    gtSeg[p[1]] >= 1 /\ gtSeg[p[2]] >= 1 /\ gtSeg[p[1]] = gtSeg[p[2]]

NegativePair(p) ==
    \/ gtSeg[p[1]] >= 1 /\ gtSeg[p[2]] >= 1 /\ gtSeg[p[1]] # gtSeg[p[2]]
    \/ (gtSeg[p[1]] = 0) # (gtSeg[p[2]] = 0)

\* C2: the count of edge k is the number of positive / negative node pairs
\* that are apart before edge k and together after it; every node pair is
\* brought together by exactly one edge, and the totals are the numbers of
\* positive / negative pairs among all node pairs.
C2_PairCounts ==
    (pc \in {"count", "done"} /\ ~oob /\ numNodes >= 1) =>
        /\ \A k \in DOMAIN ratioPos :
              /\ ratioPos[k] = Cardinality({p \in MergedBy(k) : PositivePair(p)})
              /\ ratioNeg[k] = Cardinality({p \in MergedBy(k) : NegativePair(p)})
        /\ DOMAIN ratioPos = 0 .. (i - 1) \/ pc # "count"
        /\ (pc = "done" \/ i = NumEdges) =>
              /\ DOMAIN ratioPos = Edges /\ DOMAIN ratioNeg = Edges
              /\ \A p \in NodePairs : Cardinality({k \in Edges : p \in MergedBy(k)}) = 1
              /\ totalNumPairsPos = Cardinality({p \in NodePairs : PositivePair(p)})
              /\ totalNumPairsNeg = Cardinality({p \in NodePairs : NegativePair(p)})

\* an edge that merges a two-node cluster with a node and counts pairs of
\* both kinds
C2_Witness ==
    /\ pc = "done" /\ ~oob /\ numNodes >= 3
    /\ \E k \in Edges : Cardinality(MergedBy(k)) >= 2 /\ ratioPos[k] >= 1 /\ ratioNeg[k] >= 1

\* C7 as stated: in the scenario the first edge is purely positive, the
\* second purely negative, and the last edge counts pairs of both kinds.
C7_ScenarioAsStated ==
    (IsScenario /\ Counted) =>
        /\ ratioPos[0] > 0 /\ ratioNeg[0] = 0
        /\ ratioNeg[1] > 0 /\ ratioPos[1] = 0
        /\ ratioPos[2] > 0 /\ ratioNeg[2] > 0

\* C7 amended: in the scenario the first edge is purely positive (1 pair),
\* the second purely negative (1 pair), and the last edge purely negative
\* (4 pairs, no positive pair).
C7_Scenario ==
    (IsScenario /\ Counted) =>
        /\ ratioPos[0] = 1 /\ ratioNeg[0] = 0
        /\ ratioNeg[1] = 1 /\ ratioPos[1] = 0
        /\ ratioPos[2] = 0 /\ ratioNeg[2] = 4
        /\ totalNumPairsPos = 1 /\ totalNumPairsNeg = 5

C7_Witness == IsScenario /\ pc = "done" /\ ~oob /\ DOMAIN ratioPos = 0 .. 2

\* the nodes of the cluster that slot r stands for
Members(r) == {n \in Nodes : FindRoot(parent, n) = r}

Representatives == {n \in Nodes : parent[n] = n}

\* C9: after every merge step the histogram at each representative is the
\* multiset of the labels of its cluster, the cluster is the set of nodes the
\* edges so far connect, every other slot's histogram is empty, and the
\* histograms together are the multiset of all node labels.
C9_Histograms ==
    (pc = "count" /\ ~oob /\ numNodes >= 1) =>
        /\ \A r \in Representatives :
              /\ Members(r) = ClusterBefore(i, r)
              /\ \A l \in Labels :
                    overlaps[r][l] = Cardinality({n \in Members(r) : gtSeg[n] = l})
              /\ SumOn(overlaps[r], Labels) = Cardinality(Members(r))
        /\ \A n \in Nodes \ Representatives : \A l \in Labels : overlaps[n][l] = 0
        /\ \A l \in Labels :
              SumOn([r \in Representatives |-> overlaps[r][l]], Representatives)
                  = Cardinality({n \in Nodes : gtSeg[n] = l})

\* all edges merged into one cluster of three or more nodes with two labels,
\* whose root is the cluster of the second end of the last edge
C9_Witness ==
    /\ pc = "count" /\ ~oob /\ numNodes >= 3 /\ i = NumEdges
    /\ \E r \in Representatives :
          /\ Members(r) = Nodes
          /\ Cardinality(Keys(overlaps[r])) >= 2
          /\ r \notin ClusterBefore(i - 1, mst[i - 1].u)

\* the window of edge a: the edges b with d_b <= d_a + alpha
Window(a) == {b \in Edges : mst[b].d <= mst[a].d + alpha}

\* the mirrored window of edge a: the edges b with d_b >= d_a - alpha
WindowBack(a) == {b \in Edges : mst[b].d >= mst[a].d - alpha}

Hinge(a, b) == mst[a].d + alpha - mst[b].d

BruteLoss ==
    LET P == {q \in Edges \X Edges : q[2] \in Window(q[1])}
    IN  SumOn([q \in P |-> ratioPos[q[1]] * ratioNeg[q[2]] * Hinge(q[1], q[2]) * Hinge(q[1], q[2])], P)

\* C1: with two or more nodes the loss is the sum over all edge pairs (a, b)
\* with d_b <= d_a + alpha of ratioPos[a] * ratioNeg[b] * (d_a + alpha - d_b)^2.
C1_LossIsBruteForce ==
    (pc \in {"bwd", "bwdfin", "grad", "done"} /\ ~oob /\ numNodes >= 2) =>
        loss = BruteLoss

\* a positive loss to which two edges at the same distance contribute
C1_Witness ==
    /\ pc = "done" /\ ~oob /\ numNodes >= 3 /\ loss > 0
    /\ \E a, b \in Edges : a # b /\ mst[a].d = mst[b].d /\ ratioPos[a] * ratioNeg[b] > 0

BruteGradient(k) ==
    LET F == Window(k) \ {k}
        B == WindowBack(k) \ {k}
    IN  2 * ratioPos[k] * SumOn([b \in F |-> ratioNeg[b] * Hinge(k, b)], F)
        - 2 * ratioNeg[k] * SumOn([b \in B |-> ratioPos[b] * Hinge(b, k)], B)

\* C3: with two or more nodes, gradients[k] is
\* 2 ratioPos[k] sum_{b # k, d_b <= d_k + alpha} ratioNeg[b] (d_k + alpha - d_b)
\* - 2 ratioNeg[k] sum_{b # k, d_b >= d_k - alpha} ratioPos[b] (d_b + alpha - d_k).
C3_Gradient ==
    (pc = "done" /\ ~oob /\ numNodes >= 2) =>
        /\ DOMAIN gradients = Edges
        /\ \A k \in Edges : gradients[k] = BruteGradient(k)

\* gradients of both signs from two different edges in a window
C3_Witness ==
    /\ pc = "done" /\ ~oob /\ numNodes >= 3
    /\ \E k \in Edges : gradients[k] > 0
    /\ \E k \in Edges : gradients[k] < 0
    /\ \E a, b \in Edges : a # b /\ b \in Window(a) /\ ratioPos[a] * ratioNeg[b] > 0

\* C5 as stated: with fewer than two nodes no index outside an array is used,
\* and the function returns loss 0 with nothing written.
C5_DegenerateIsGuarded ==
    numNodes < 2 =>
        /\ ~oob
        /\ pc # "crashed"
        /\ pc = "done" => (loss = 0 /\ gradients = Empty /\ ratioPos = Empty /\ ratioNeg = Empty)

\* alpha is larger than the difference of any two edge distances
AlphaCoversAll == \A a, b \in Edges : alpha > mst[a].d - mst[b].d

FullLoss ==
    LET P == Edges \X Edges
    IN  SumOn([q \in P |-> ratioPos[q[1]] * ratioNeg[q[2]] * Hinge(q[1], q[2]) * Hinge(q[1], q[2])], P)

\* C6 as stated: once alpha is larger than every difference of two edge
\* distances, the loss and every gradient are 0.
C6_LargeAlphaGivesZero ==
    (pc = "done" /\ ~oob /\ numNodes >= 2 /\ AlphaCoversAll) =>
        /\ loss = 0
        /\ \A k \in Edges : gradients[k] = 0

\* C6 amended: once alpha is larger than every difference of two edge
\* distances, every edge is in every window: the loss is the sum over all
\* edge pairs of ratioPos[a] * ratioNeg[b] * (d_a + alpha - d_b)^2, which is
\* positive unless there is no positive or no negative pair, and then the
\* loss and every gradient are 0.
C6_LargeAlphaGivesFullSum ==
    (pc = "done" /\ ~oob /\ numNodes >= 2 /\ AlphaCoversAll) =>
        /\ loss = FullLoss
        /\ (totalNumPairsPos > 0 /\ totalNumPairsNeg > 0) => loss > 0
        /\ (totalNumPairsPos = 0 \/ totalNumPairsNeg = 0) =>
              (loss = 0 /\ \A k \in Edges : gradients[k] = 0)

C6_Witness ==
    /\ pc = "done" /\ ~oob /\ numNodes >= 3 /\ AlphaCoversAll
    /\ loss > 0
    /\ \E k \in Edges : gradients[k] # 0
    /\ \E a, b \in Edges : mst[a].d # mst[b].d

C10_Indices ==
    (numNodes >= 2) =>
        /\ ~oob
        /\ pc = "fwd" => (j <= i /\ i <= NumEdges /\ (i < EdgeBound => j \in Edges)
                          /\ \A k \in Edges : writesFwd[k] = (IF k < j THEN 1 ELSE 0))
        /\ pc = "bwd" => (j >= i /\ j \in Edges /\ i \in Edges
                          /\ \A k \in Edges : writesBwd[k] = (IF k > j THEN 1 ELSE 0))
        /\ pc = "bwdfin" => (j \in Edges
                             /\ \A k \in Edges : writesBwd[k] = (IF k > j THEN 1 ELSE 0))
        /\ pc \in {"bwd", "bwdfin", "grad", "done"} => \A k \in Edges : writesFwd[k] = 1
        /\ pc \in {"grad", "done"} => \A k \in Edges : writesBwd[k] = 1

C10_Moves ==
    (numNodes >= 2) =>
        /\ (pc = "fwd" /\ pc' = "fwd") => j' >= j
        /\ (pc \in {"bwd", "bwdfin"} /\ pc' \in {"bwd", "bwdfin"}) => j' <= j

\* C10: with two or more nodes the trailing index j never passes i (j <= i in
\* the forward sweep, j >= i in the backward sweep) and never moves back, every
\* mst[j] read and scores[j] written has j within the edges, and after each
\* "finish pending" loop every entry has been written exactly once.
C10_TrailingIndex == [](C10_Indices) /\ [][C10_Moves]_vars

\* both sweeps have moved j inside their while loops and have finished
C10_Witness ==
    /\ pc = "done" /\ ~oob /\ numNodes >= 3
    /\ \E k \in Edges : scoresA[k] # scoreA
    /\ \E k \in Edges : scoresD[k] # scoreD

\* ---- c_prune_mst
\* the components joined to the component of label l by the accepted edges
\* among the input edges before edge e
RECURSIVE Joined(_, _)
Joined(S, e) ==
    LET A == {k \in Edges : k < e /\ \E m \in DOMAIN accepted : accepted[m] = k}
        T == S \cup {labels[mst[k].v] : k \in {a \in A : labels[mst[a].u] \in S}}
               \cup {labels[mst[k].u] : k \in {a \in A : labels[mst[a].v] \in S}}
    IN  IF T = S THEN S ELSE Joined(T, e)

ComponentSet == {components[k] : k \in DOMAIN components}

ValidPruneInput ==
    /\ numNodes >= 1
    /\ IsSpanningTree(numNodes, mst)
    /\ \A n \in Nodes : labels[n] \in ComponentSet
    /\ \A c \in ComponentSet : \E n \in Nodes : labels[n] = c
    /\ \A a, b \in DOMAIN components : components[a] = components[b] => a = b

\* C4: on a spanning tree whose labels are exactly the components, the run
\* neither throws nor fails its assertion, and it returns numComponents - 1
\* edges that join all components; on any input no triple is written at
\* index numComponents - 1 or beyond.
C4_OutputSize ==
    /\ ValidPruneInput =>
          /\ pc \notin {"threw", "assert_failed", "crashed"}
          /\ (pc = "prune" /\ ~(i < EdgeBound)) => j = numComponents - 1
          /\ pc = "done" =>
                /\ j = numComponents - 1
                /\ DOMAIN filtered_mst = 0 .. (numComponents - 2)
                /\ \A c \in ComponentSet : Joined({c}, NumEdges) = ComponentSet
    /\ \A k \in DOMAIN filtered_mst : k < numComponents - 1
    /\ j = Cardinality(DOMAIN filtered_mst)
    /\ numComponents >= 1 => j <= numComponents - 1

\* three components over three or more nodes, returned
C4_Witness ==
    /\ pc = "done" /\ ValidPruneInput /\ numComponents = 3 /\ numNodes >= 3
    /\ j = 2

\* C8: the output is the accepted input edges in input order, copied
\* unchanged; an input edge is accepted exactly when the components of its
\* ends are not joined by the edges accepted before it.
C8_AcceptedEdges ==
    (pc \in {"prune", "threw", "done", "assert_failed"} /\ ~oob) =>
        /\ DOMAIN accepted = 0 .. (j - 1) /\ DOMAIN filtered_mst = 0 .. (j - 1)
        /\ \A k \in DOMAIN accepted :
              /\ accepted[k] \in Edges /\ accepted[k] < i
              /\ filtered_mst[k] = mst[accepted[k]]
              /\ \A m \in DOMAIN accepted : m < k => accepted[m] < accepted[k]
        /\ \A e \in Edges : e < i =>
              ((\E k \in DOMAIN accepted : accepted[k] = e)
                  <=> labels[mst[e].v] \notin Joined({labels[mst[e].u]}, e))

\* a returned run that dropped an edge between two different components
\* which earlier accepted edges had joined
C8_Witness ==
    /\ pc = "done" /\ ~oob /\ numNodes >= 3 /\ j >= 1
    /\ \E e \in Edges :
          /\ labels[mst[e].u] # labels[mst[e].v]
          /\ \A k \in DOMAIN accepted : accepted[k] # e

====
